---- MODULE Spec2Model ----
(***************************************************************************)
(* A model of adafruit_neopxl8.NeoPxl8 (src/adafruit_neopxl8.py): the      *)
(* constructor and the envelope it lays out, the foreground calls          *)
(* (_transmit, show, fill, deinit) interleaved with the background         *)
(* transfer of the rp2pio state machine, and the PIO program _PROGRAM      *)
(* executed cycle by cycle.                                                *)
(***************************************************************************)
EXTENDS Integers, Sequences, FiniteSets, TLC

VARIABLES
    n,              \* constructor argument n (total number of pixels)
    num_strands,    \* constructor argument num_strands
    bpp,            \* constructor argument bpp
    pixel_order,    \* constructor argument pixel_order: None, a string, a tuple
    auto_write,     \* constructor argument auto_write
    pc,             \* position of the foreground thread
    ret,            \* return positions of the active _transmit call
    byteorder,      \* PixelBuf base: the byteorder it was initialised with
    buf,            \* PixelBuf base: the flat (post-brightness) pixel bytes
    _num_strands,   \* self._num_strands
    _data,          \* self._data, the envelope bytearray
    _pixels,        \* self._pixels, the payload view <<start, stop>> of _data
    _sm,            \* self._sm: "none", "active" or "released"
    queue,          \* the engine's background writes: [id, pos, swap] each
    rx,             \* the words the engine has taken, <<id, index, word>>
    submitted,      \* per background_write call, the words of _data32 then
    fifo,           \* PIO: the TX FIFO, words still to be pulled
    pio_pc,         \* PIO: address of the instruction to execute
    delay,          \* PIO: delay cycles left of the last instruction
    OSR,            \* PIO: the output shift register, 32 bits, highest first
    osr_count,      \* PIO: the output shift counter (32 is empty)
    x,              \* PIO: scratch register x
    y,              \* PIO: scratch register y
    pins,           \* PIO: the level of the num_strands output pins
    drive,          \* which instruction drove the pins last
    meter,          \* cycles of the bit-loop iteration in progress
    last,           \* cycles of the last complete bit-loop iteration
    mark            \* history: the frames submitted when deinit was entered

vars == <<n, num_strands, bpp, pixel_order, auto_write, pc, ret, byteorder,
          buf, _num_strands, _data, _pixels, _sm, queue, rx, submitted,
          fifo, pio_pc, delay, OSR, osr_count, x, y, pins, drive, meter, last,
          mark>>

\* the constructor's arguments, the instance, the engine's transfers
args == <<n, num_strands, bpp, pixel_order, auto_write>>
base == <<byteorder, buf>>
inst == <<_num_strands, _data, _pixels>>
xfer == <<queue, rx, submitted>>
\* the state of the PIO state machine running _PROGRAM
pio == <<fifo, pio_pc, delay, OSR, osr_count, x, y, pins, drive, meter, last>>

-----------------------------------------------------------------------------
(* Bounds of the model.                                                    *)

\* largest pixel count of the interleaving specification
MaxN == 2
\* number of frames the foreground submits in the interleaving specification
MaxFrames == 2
\* largest pixel count of the constructor specification
MaxPixels == 16
\* largest single-strand pixel count and number of frames of the program
\* specification
MaxPioN == 3
MaxPioFrames == 2
\* number of bytes set in a buffer and number of frames shown in the buffer
\* specification
MaxLit == 1
MaxShown == 1

-----------------------------------------------------------------------------
(* Pixel color order constants, lines 54-62, as sequences of letters.      *)

RGB == <<"R", "G", "B">>
GRB == <<"G", "R", "B">>
RGBW == <<"R", "G", "B", "W">>
GRBW == <<"G", "R", "B", "W">>

\* the reset delay packed into the trailer, line 147
ResetDelay == 3840

RECURSIVE Pow2(_)
Pow2(k) == IF k = 0 THEN 1 ELSE 2 * Pow2(k - 1)

Zeros(k) == [i \in 1 .. k |-> 0]

\* struct.pack(">L", v) and struct.pack("<L", v), v in 0 .. 2^32-1
PackBE(v) == << (v \div 16777216) % 256, (v \div 65536) % 256,
                (v \div 256) % 256, v % 256 >>
PackLE(v) == << v % 256, (v \div 256) % 256,
                (v \div 65536) % 256, (v \div 16777216) % 256 >>
struct_pack(fmt, v) == IF fmt = ">L" THEN PackBE(v) ELSE PackLE(v)

-----------------------------------------------------------------------------
(* The constructor's arithmetic, lines 117-147.                            *)

\* line 117: if n % num_strands: raise ValueError
LengthError_NoCheck(n_, ns) == FALSE
LengthError(n_, ns) == n_ % ns # 0

\* the values of the pixel_order argument
None == [kind |-> "none", val |-> <<>>]
Str(s) == [kind |-> "str", val |-> s]
Tuple(t) == [kind |-> "tuple", val |-> t]

\* lines 119-124: the byteorder handed to the base class
order_string(bpp_, po) ==
    IF po.kind = "none" \/ po.val = <<>> THEN (IF bpp_ = 3 THEN GRB ELSE GRBW)
    ELSE IF po.kind = "tuple"
         THEN [i \in DOMAIN po.val |-> RGBW[po.val[i] + 1]]
         ELSE po.val

\* lines 130-139
data_len_NoScale(n_, ns, bpp_) == bpp_ * n_
data_len(n_, ns, bpp_) ==
    IF ns = 1 THEN bpp_ * n_ ELSE (bpp_ * n_ * 8) \div ns
pack(ns) == IF ns = 1 THEN ">L" ELSE "<L"
osr(ns) == ns # 1
loop_count_Bytes(n_, ns, bpp_) == data_len(n_, ns, bpp_)
loop_count(n_, ns, bpp_) ==
    IF ns = 1 THEN 8 * data_len(n_, ns, bpp_) ELSE data_len(n_, ns, bpp_)

\* line 140: padding_count = -data_len % 4 (Python's % is non-negative)
padding_count_None(dl) == 0
padding_count(dl) == (4 - (dl % 4)) % 4

\* lines 143-147: bytearray(8 + data_len + padding_count), then the header
\* in the first four bytes and the trailer in the last four
envelope_SameOrder(n_, ns, bpp_) ==
    LET dl == data_len(n_, ns, bpp_)
        len == 8 + dl + padding_count(dl)
        hdr == struct_pack("<L", loop_count(n_, ns, bpp_) - 1)
        trl == struct_pack("<L", ResetDelay)
    IN  [i \in 1 .. len |->
            IF i <= 4 THEN hdr[i]
            ELSE IF i > len - 4 THEN trl[i - (len - 4)]
            ELSE 0]
envelope(n_, ns, bpp_) ==
    LET dl == data_len(n_, ns, bpp_)
        len == 8 + dl + padding_count(dl)
        hdr == struct_pack(pack(ns), loop_count(n_, ns, bpp_) - 1)
        trl == struct_pack(pack(ns), ResetDelay)
    IN  [i \in 1 .. len |->
            IF i <= 4 THEN hdr[i]
            ELSE IF i > len - 4 THEN trl[i - (len - 4)]
            ELSE 0]

\* line 145: memoryview(self._data)[4 : 4 + data_len], as <<start, stop>>
pixels_view(n_, ns, bpp_) == <<4, 4 + data_len(n_, ns, bpp_)>>

-----------------------------------------------------------------------------
(* Buffers as the code and the engine see them.                            *)

\* bit k (0 is the least significant) of byte b
Bit(b, k) == (b \div Pow2(k)) % 2

\* self._data32 = memoryview(self._data).cast("L"): word i (from 0), read in
\* the machine's little-endian order; background_write(swap=True) swaps its
\* bytes.  A word is its four bytes, the most significant first.
data32(d, i, swp) ==
    IF swp THEN <<d[4 * i + 1], d[4 * i + 2], d[4 * i + 3], d[4 * i + 4]>>
    ELSE <<d[4 * i + 4], d[4 * i + 3], d[4 * i + 2], d[4 * i + 1]>>
words(d, swp) == [i \in 1 .. (Len(d) \div 4) |-> data32(d, i - 1, swp)]

\* bitops.bit_transpose(input, output, width): byte j of strand i is
\* input[i * stride + j]; the eight output bytes of position j carry its bits
\* most significant first, strand i in bit i
bit_transpose_DropStrand(input, width) ==
    LET stride == Len(input) \div width
        strand(i, j) == input[i * stride + j + 1]
        RECURSIVE gather(_, _, _)
        gather(i, j, k) ==
            IF i = width - 1 THEN 0
            ELSE Bit(strand(i, j), 7 - k) * Pow2(i) + gather(i + 1, j, k)
    IN  [o \in 1 .. (8 * stride) |-> gather(0, (o - 1) \div 8, (o - 1) % 8)]
bit_transpose(input, width) ==
    LET stride == Len(input) \div width
        strand(i, j) == input[i * stride + j + 1]
        RECURSIVE gather(_, _, _)
        gather(i, j, k) ==
            IF i = width THEN 0
            ELSE Bit(strand(i, j), 7 - k) * Pow2(i) + gather(i + 1, j, k)
    IN  [o \in 1 .. (8 * stride) |-> gather(0, (o - 1) \div 8, (o - 1) % 8)]

\* d with src written at d[start : start + len(src)]
write_at_Start(d, start, src) ==
    [i \in 1 .. Len(d) |-> IF i <= Len(src) THEN src[i] ELSE d[i]]
write_at(d, start, src) ==
    [i \in 1 .. Len(d) |->
        IF i > start /\ i <= start + Len(src) THEN src[i - start] ELSE d[i]]

\* self._sm.pending
pending == queue # <<>>

-----------------------------------------------------------------------------
(* __init__, lines 106-172.                                                *)

\* lines 117-118
InitValidate ==
    /\ pc = "init"
    /\ pc' = IF LengthError(n, num_strands) THEN "raised" ELSE "init_super"
    /\ UNCHANGED <<args, ret, base, inst, _sm, xfer, pio, mark>>

\* lines 119-128: the base class is initialised with n and the byteorder
InitSuper ==
    /\ pc = "init_super"
    /\ byteorder' = order_string(bpp, pixel_order)
    /\ buf' = Zeros(Len(byteorder') * n)
    /\ pc' = "init_alloc"
    /\ UNCHANGED <<args, ret, inst, _sm, xfer, pio, mark>>

\* lines 130-149
InitAlloc ==
    /\ pc = "init_alloc"
    /\ _num_strands' = num_strands
    /\ _data' = envelope(n, num_strands, bpp)
    /\ _pixels' = pixels_view(n, num_strands, bpp)
    /\ pc' = "init_sm"
    /\ UNCHANGED <<args, ret, base, _sm, xfer, pio, mark>>

\* lines 164-172: the state machine is acquired
InitStateMachine ==
    /\ pc = "init_sm"
    /\ _sm' = "active"
    /\ pc' = "ready"
    /\ UNCHANGED <<args, ret, base, inst, xfer, pio, mark>>

-----------------------------------------------------------------------------
(* The calls of the foreground thread on a constructed driver.  The base   *)
(* class PixelBuf calls _transmit(buf) from show(); fill and item          *)
(* assignment call show() when auto_write is set.                          *)

ColorBytes == {0, 165}

CallTransmit(back) ==
    /\ pc' = "tx_wait"
    /\ ret' = back

\* NeoPxl8.show(), lines 88-94
ShowCall(limit) ==
    /\ pc = "ready"
    /\ Len(submitted) < limit
    /\ CallTransmit("ready")
    /\ UNCHANGED <<args, base, inst, _sm, xfer, pio, mark>>

Show == ShowCall(MaxFrames)

\* NeoPxl8.fill(color), lines 96-98
Fill ==
    /\ pc = "ready"
    /\ Len(submitted) < MaxFrames
    /\ \E v \in ColorBytes : buf' = [i \in DOMAIN buf |-> v]
    /\ IF auto_write THEN CallTransmit("ready") ELSE UNCHANGED <<pc, ret>>
    /\ UNCHANGED <<args, byteorder, inst, _sm, xfer, pio, mark>>

\* pixels[i] = color, through the base class
SetItem ==
    /\ pc = "ready"
    /\ Len(submitted) < MaxFrames
    /\ \E p \in 0 .. (n - 1), v \in ColorBytes :
          buf' = [i \in DOMAIN buf |->
                     IF (i - 1) \div Len(byteorder) = p THEN v ELSE buf[i]]
    /\ IF auto_write THEN CallTransmit("ready") ELSE UNCHANGED <<pc, ret>>
    /\ UNCHANGED <<args, byteorder, inst, _sm, xfer, pio, mark>>

\* pixels[p] = color with one byte of the color changed: the buffers with up
\* to MaxLit bytes set, one byte at a time
ByteValues == {1, 165}

SetChannel ==
    /\ pc = "ready"
    /\ Len(submitted) < MaxShown
    /\ Cardinality({i \in DOMAIN buf : buf[i] # 0}) < MaxLit
    /\ \E i \in DOMAIN buf, v \in ByteValues :
          /\ buf[i] = 0
          /\ buf' = [buf EXCEPT ![i] = v]
    /\ IF auto_write THEN CallTransmit("ready") ELSE UNCHANGED <<pc, ret>>
    /\ UNCHANGED <<args, byteorder, inst, _sm, xfer, pio, mark>>

-----------------------------------------------------------------------------
(* _transmit, lines 203-211.                                               *)

\* lines 204-205: while self._sm.pending: pass
WaitOver_NoWait == TRUE
WaitOver == ~pending

TransmitWait ==
    /\ pc = "tx_wait"
    /\ _sm = "active"
    /\ WaitOver
    /\ pc' = "tx_write"
    /\ UNCHANGED <<args, ret, base, inst, _sm, xfer, pio, mark>>

\* line 204 on a released state machine: the driver keeps no flag of its own,
\* so what happens is what reading pending of a deinitialised rp2pio
\* StateMachine does, and that depends on the build: it raises, or it reads
\* as 0 (nothing is pending on a stopped engine) and the call goes on to the
\* write
TransmitDeinited ==
    /\ pc = "tx_wait"
    /\ _sm = "released"
    /\ pc' \in {"error", "tx_write"}
    /\ UNCHANGED <<args, ret, base, inst, _sm, xfer, pio, mark>>

\* whether the copy of line 207 or the transpose of line 210 raises
\* ValueError: a slice assignment needs equal lengths, bit_transpose an input
\* that is a multiple of the width and an output that holds it
WriteFails(ns, src, view) ==
    IF ns = 1 THEN Len(src) # view[2] - view[1]
    ELSE \/ Len(src) % ns # 0
         \/ view[2] - view[1] < (Len(src) * 8) \div ns

\* lines 206-207 and 209-210: the payload written through self._pixels
payload_Reversed(ns, src) ==
    IF ns = 1 THEN [i \in 1 .. Len(src) |-> src[Len(src) + 1 - i]]
    ELSE bit_transpose(src, ns)
payload(ns, src) == IF ns = 1 THEN src ELSE bit_transpose(src, ns)

TransmitWrite ==
    /\ pc = "tx_write"
    /\ IF WriteFails(_num_strands, buf, _pixels)
       THEN pc' = "error" /\ UNCHANGED _data
       ELSE /\ _data' = write_at(_data, _pixels[1], payload(_num_strands, buf))
            /\ pc' = "tx_submit"
    /\ UNCHANGED <<args, ret, base, _num_strands, _pixels, _sm, xfer, pio, mark>>

\* lines 208 and 211: self._sm.background_write(self._data32[, swap=True])
TransmitSubmit_Blocking ==
    /\ pc = "tx_submit"
    /\ queue' = queue
    /\ rx' = rx \o [i \in 1 .. (Len(_data) \div 4) |->
                      <<Len(submitted) + 1, i - 1,
                        data32(_data, i - 1, _num_strands = 1)>>]
    /\ submitted' = Append(submitted, words(_data, _num_strands = 1))
    /\ pc' = ret
    /\ UNCHANGED <<args, ret, base, inst, _sm, pio, mark>>
TransmitSubmit_NoDeinitCheck ==
    /\ pc = "tx_submit"
    /\ queue' = Append(queue, [id |-> Len(submitted) + 1, pos |-> 0,
                               swap |-> (_num_strands = 1)])
    /\ submitted' = Append(submitted, words(_data, _num_strands = 1))
    /\ pc' = ret
    /\ UNCHANGED <<args, ret, base, inst, _sm, rx, pio, mark>>
TransmitSubmit ==
    /\ pc = "tx_submit"
    /\ IF _sm = "released"
       THEN \* background_write of a deinitialised StateMachine raises
            /\ pc' = "error"
            /\ UNCHANGED <<queue, submitted>>
       ELSE /\ queue' = Append(queue, [id |-> Len(submitted) + 1, pos |-> 0,
                                       swap |-> (_num_strands = 1)])
            /\ submitted' = Append(submitted, words(_data, _num_strands = 1))
            /\ pc' = ret
    /\ UNCHANGED <<args, ret, base, inst, _sm, rx, pio, mark>>

-----------------------------------------------------------------------------
(* deinit, lines 174-178.                                                  *)

Deinit ==
    /\ pc = "ready"
    /\ Len(submitted) < MaxFrames
    /\ pc' = "de_fill"
    /\ mark' = Len(submitted)
    /\ UNCHANGED <<args, ret, base, inst, _sm, xfer, pio>>

\* line 176: self.fill(0)
DeinitFill_NoBlank ==
    /\ pc = "de_fill"
    /\ buf' = buf
    /\ IF auto_write THEN CallTransmit("de_show")
       ELSE pc' = "de_show" /\ UNCHANGED ret
    /\ UNCHANGED <<args, byteorder, inst, _sm, xfer, pio, mark>>
DeinitFill ==
    /\ pc = "de_fill"
    /\ buf' = [i \in DOMAIN buf |-> 0]
    /\ IF auto_write THEN CallTransmit("de_show")
       ELSE pc' = "de_show" /\ UNCHANGED ret
    /\ UNCHANGED <<args, byteorder, inst, _sm, xfer, pio, mark>>

\* line 177: self.show()
DeinitShow ==
    /\ pc = "de_show"
    /\ CallTransmit("de_release")
    /\ UNCHANGED <<args, base, inst, _sm, xfer, pio, mark>>

\* line 178: self._sm.deinit(); the state machine and its DMA are stopped,
\* whatever was still to be written is dropped
DeinitRelease ==
    /\ pc = "de_release"
    /\ _sm' = "released"
    /\ queue' = <<>>
    /\ pc' = "ready"
    /\ UNCHANGED <<args, ret, base, inst, rx, submitted, pio, mark>>

-----------------------------------------------------------------------------
(* The background transfer: the engine takes the next word of the write    *)
(* in progress from the memory of the buffer it was handed.                *)

NextWord == data32(_data, Head(queue).pos, Head(queue).swap)

Transfer ==
    LET t == Head(queue)
    IN  /\ rx' = Append(rx, <<t.id, t.pos, NextWord>>)
        /\ queue' = IF t.pos + 1 = Len(_data) \div 4
                    THEN Tail(queue)
                    ELSE <<[t EXCEPT !.pos = t.pos + 1]>> \o Tail(queue)

\* the transfer at whatever pace the state machine takes the words
EngineStep ==
    /\ _sm = "active"
    /\ queue # <<>>
    /\ Transfer
    /\ UNCHANGED <<args, pc, ret, base, inst, _sm, submitted, pio, mark>>

-----------------------------------------------------------------------------
(* The PIO program, lines 26-51 and 151-161, and the state machine of      *)
(* lines 164-172 running it, one clock cycle per step.                     *)

\* depth of the state machine's TX FIFO
FifoDepth == 4

MovPins(src, d) == [op |-> "mov", src |-> src, delay |-> d]
Pull(ifempty, d) == [op |-> "pull", ifempty |-> ifempty, delay |-> d]
Out(dest, count, d) == [op |-> "out", dest |-> dest, count |-> count, delay |-> d]
Jmp(cond, target, d) == [op |-> "jmp", cond |-> cond, target |-> target, delay |-> d]

\* lines 151-159
variable_part_NoFiller(ns) ==
    IF ns = 8 THEN <<Out("pins", 8, 4)>>
    ELSE IF ns = 1 THEN <<Out("pins", 1, 4)>>
    ELSE <<Out("pins", ns, 4)>>
variable_part(ns) ==
    IF ns = 8 THEN <<Out("pins", 8, 4)>>
    ELSE IF ns = 1 THEN <<Out("pins", 1, 4)>>
    ELSE <<Out("pins", ns, 3), Out("x", 8 - ns, 0)>>

\* the labels of _PROGRAM as addresses
top == 0
bitloop == 3
wait_reset(ns) == 9 + Len(variable_part(ns))

\* lines 26-51 with the variable part filled in, line 161
program(ns) ==
    << MovPins("null", 0),                \* top:
       Pull(FALSE, 0),
       Out("y", 32, 0),
       Pull(TRUE, 1),                     \* bitloop:
       MovPins("~null", 3) >>
    \o variable_part(ns)
    \o << MovPins("null", 0),
          Jmp("y--", bitloop, 0),
          Pull(FALSE, 0),
          Out("y", 32, 0),
          Jmp("y--", wait_reset(ns), 0),  \* wait_reset:
          Jmp("always", top, 0) >>

ByteBits(b) == [k \in 1 .. 8 |-> Bit(b, 8 - k)]
WordBits(w) == ByteBits(w[1]) \o ByteBits(w[2]) \o ByteBits(w[3]) \o ByteBits(w[4])

\* the unsigned value of at most 31 bits, highest first
RECURSIVE BitsValue(_)
BitsValue(bits) ==
    IF bits = <<>> THEN 0
    ELSE 2 * BitsValue(SubSeq(bits, 1, Len(bits) - 1)) + bits[Len(bits)]

\* a 32-bit register value; values from 2^31 up are kept as value - 2^32
RegValue(bits) ==
    IF Len(bits) < 32 THEN BitsValue(bits)
    ELSE BitsValue(SubSeq(bits, 2, 32)) - bits[1] * 1073741824 * 2

\* per bit-loop iteration: the cycles with the pins high, on the data bits and
\* low, whether it waited for data, the bits shifted out of the OSR and how
\* many of them went to the pins
ZeroMeter ==
    [high |-> 0, var |-> 0, low |-> 0, stall |-> FALSE, bits |-> 0, pinbits |-> 0]

Count(m, d) ==
    IF d = "high" THEN [m EXCEPT !.high = @ + 1]
    ELSE IF d = "var" THEN [m EXCEPT !.var = @ + 1]
    ELSE [m EXCEPT !.low = @ + 1]

PioReset ==
    /\ fifo = <<>>
    /\ pio_pc = 0
    /\ delay = 0
    /\ OSR = Zeros(32)
    /\ osr_count = 32
    /\ x = 0
    /\ y = 0
    /\ pins = 0
    /\ drive = "low"
    /\ meter = ZeroMeter
    /\ last = ZeroMeter

\* the bits an out instruction shifts out, and the register it leaves
\* (out_shift_right=osr, line 171)
ShiftedOut(right, count) ==
    IF right THEN SubSeq(OSR, 33 - count, 32) ELSE SubSeq(OSR, 1, count)
ShiftedRest(right, count) ==
    IF right THEN Zeros(count) \o SubSeq(OSR, 1, 32 - count)
    ELSE SubSeq(OSR, count + 1, 32) \o Zeros(count)

\* a pull with nothing to pull stalls the state machine
Stalled(ins) ==
    /\ ins.op = "pull"
    /\ fifo = <<>>
    /\ ins.ifempty => osr_count >= 32

PioDelay ==
    /\ delay' = delay - 1
    /\ meter' = Count(meter, drive)
    /\ UNCHANGED <<fifo, pio_pc, OSR, osr_count, x, y, pins, drive, last>>

PioStall ==
    /\ meter' = [meter EXCEPT !.stall = TRUE]
    /\ UNCHANGED <<fifo, pio_pc, delay, OSR, osr_count, x, y, pins, drive, last>>

PioExecute(ins) ==
    LET ns == _num_strands
        drv == IF ins.op = "mov" THEN (IF ins.src = "null" THEN "low" ELSE "high")
               ELSE IF ins.op = "out" /\ ins.dest = "pins" THEN "var"
               ELSE drive
        endOfIteration == ins.op = "jmp" /\ ins.cond = "y--" /\ ins.target = bitloop
        startOfFrame == ins.op = "out" /\ pio_pc = 2
        shifted == IF ins.op = "out" THEN ins.count ELSE 0
        topins == IF ins.op = "out" /\ ins.dest = "pins" THEN ins.count ELSE 0
        counted == [Count(meter, drv) EXCEPT !.bits = @ + shifted,
                                             !.pinbits = @ + topins]
    IN  /\ delay' = ins.delay
        /\ drive' = drv
        /\ meter' = IF endOfIteration \/ startOfFrame THEN ZeroMeter
                    ELSE counted
        /\ last' = IF endOfIteration THEN counted ELSE last
        /\ CASE ins.op = "mov" ->
                  /\ pins' = IF ins.src = "null" THEN 0 ELSE Pow2(ns) - 1
                  /\ pio_pc' = pio_pc + 1
                  /\ UNCHANGED <<fifo, OSR, osr_count, x, y>>
             [] ins.op = "pull" ->
                  /\ IF ins.ifempty /\ osr_count < 32
                     THEN UNCHANGED <<fifo, OSR, osr_count>>
                     ELSE /\ OSR' = WordBits(Head(fifo))
                          /\ osr_count' = 0
                          /\ fifo' = Tail(fifo)
                  /\ pio_pc' = pio_pc + 1
                  /\ UNCHANGED <<x, y, pins>>
             [] ins.op = "out" ->
                  LET bits == ShiftedOut(osr(ns), ins.count)
                  IN  /\ OSR' = ShiftedRest(osr(ns), ins.count)
                      /\ osr_count' = IF osr_count + ins.count > 32 THEN 32
                                      ELSE osr_count + ins.count
                      /\ pins' = IF ins.dest = "pins"
                                 THEN BitsValue(bits) % Pow2(ns) ELSE pins
                      /\ x' = IF ins.dest = "x" THEN RegValue(bits) ELSE x
                      /\ y' = IF ins.dest = "y" THEN RegValue(bits) ELSE y
                      /\ pio_pc' = pio_pc + 1
                      /\ UNCHANGED fifo
             [] ins.op = "jmp" ->
                  /\ pio_pc' = IF ins.cond = "always" \/ y # 0 THEN ins.target
                               ELSE pio_pc + 1
                  /\ y' = IF ins.cond = "y--" THEN y - 1 ELSE y
                  /\ UNCHANGED <<fifo, OSR, osr_count, x, pins>>

\* one cycle of the state machine's clock (frequency=800_000 * 16, line 166)
PioCycle ==
    /\ _sm = "active"
    /\ LET ins == program(_num_strands)[pio_pc + 1]
       IN  IF delay > 0 THEN PioDelay
           ELSE IF Stalled(ins) THEN PioStall
           ELSE PioExecute(ins)
    /\ UNCHANGED <<args, pc, ret, base, inst, _sm, xfer, mark>>

\* the transfer into the TX FIFO, paced by the room in it
EngineFeed ==
    /\ _sm = "active"
    /\ queue # <<>>
    /\ Len(fifo) < FifoDepth
    /\ Transfer
    /\ fifo' = Append(fifo, NextWord)
    /\ UNCHANGED <<args, pc, ret, base, inst, _sm, submitted, mark>>
    /\ UNCHANGED <<pio_pc, delay, OSR, osr_count, x, y, pins, drive, meter, last>>

-----------------------------------------------------------------------------
(* The specifications.                                                     *)

Unbuilt ==
    /\ pc = "init"
    /\ ret = "ready"
    /\ byteorder = <<>>
    /\ buf = <<>>
    /\ _num_strands = 0
    /\ _data = <<>>
    /\ _pixels = <<0, 0>>
    /\ _sm = "none"
    /\ queue = <<>>
    /\ rx = <<>>
    /\ submitted = <<>>
    /\ mark = 0
    /\ PioReset

\* the interleaving of the foreground with the engine, on small drivers
Init ==
    /\ n \in 1 .. MaxN
    /\ num_strands \in 1 .. 8
    /\ bpp \in {3, 4}
    /\ pixel_order \in {None, Str(RGBW), Tuple(<<1, 0, 2>>)}
    /\ auto_write \in BOOLEAN
    /\ Unbuilt

Next ==
    \/ InitValidate \/ InitSuper \/ InitAlloc \/ InitStateMachine
    \/ Show \/ Fill \/ SetItem
    \/ TransmitWait \/ TransmitDeinited \/ TransmitWrite \/ TransmitSubmit
    \/ Deinit \/ DeinitFill \/ DeinitShow \/ DeinitRelease
    \/ EngineStep

Spec == Init /\ [][Next]_vars

\* the constructor alone, on every topology up to MaxPixels
CtorInit ==
    /\ n \in 1 .. MaxPixels
    /\ num_strands \in 1 .. 8
    /\ bpp \in {3, 4}
    /\ pixel_order \in {None, Str(RGB), Str(GRB), Str(RGBW), Str(GRBW),
                        Tuple(<<1, 0, 2>>), Tuple(<<1, 0, 2, 3>>)}
    /\ auto_write \in BOOLEAN
    /\ Unbuilt

CtorNext == InitValidate \/ InitSuper \/ InitAlloc \/ InitStateMachine

CtorSpec == CtorInit /\ [][CtorNext]_vars

\* the program on the frames of a driver: one pixel per strand, or a single
\* strand of up to MaxPioN pixels
ShowFrame == ShowCall(MaxPioFrames)

PioInit ==
    /\ num_strands \in 1 .. 8
    /\ n \in IF num_strands = 1 THEN 1 .. MaxPioN ELSE {num_strands}
    /\ bpp \in IF num_strands \in {1, 8} THEN {3, 4} ELSE {3}
    /\ pixel_order = None
    /\ auto_write = FALSE
    /\ Unbuilt

PioNext ==
    \/ InitValidate \/ InitSuper \/ InitAlloc \/ InitStateMachine
    \/ ShowFrame
    \/ TransmitWait \/ TransmitWrite \/ TransmitSubmit
    \/ EngineFeed
    \/ PioCycle

PioSpec == PioInit /\ [][PioNext]_vars

\* the buffers _transmit is handed on one strand and on eight, its two ways
\* of filling the payload
ShowBuffer == ShowCall(MaxShown)

TransposeInit ==
    /\ num_strands \in {1, 8}
    /\ n \in IF num_strands = 1 THEN 1 .. MaxPioN ELSE {num_strands}
    /\ bpp \in {3, 4}
    /\ pixel_order = None
    /\ auto_write = FALSE
    /\ Unbuilt

TransposeNext ==
    \/ InitValidate \/ InitSuper \/ InitAlloc \/ InitStateMachine
    \/ SetChannel
    \/ ShowBuffer
    \/ TransmitWait \/ TransmitWrite \/ TransmitSubmit
    \/ EngineStep

TransposeSpec == TransposeInit /\ [][TransposeNext]_vars

\* the interleaving specification with the scheduling the code relies on:
\* the engine keeps transferring while a write is pending, and the
\* foreground thread keeps running while it is inside _transmit
FairSpec ==
    /\ Spec
    /\ WF_vars(EngineStep)
    /\ WF_vars(TransmitWait \/ TransmitDeinited \/ TransmitWrite \/ TransmitSubmit)

-----------------------------------------------------------------------------
(* The claims.                                                             *)

\* words of one frame, the payload length, the padding length
FrameWords == Len(_data) \div 4
PayloadLen == _pixels[2] - _pixels[1]
PaddingLen == Len(_data) - 8 - PayloadLen
Built == pc \notin {"init", "raised", "init_super", "init_alloc"}

\* C1: the envelope is written only while no transfer is pending: every step
\* that executes the write of _transmit, and every step that changes _data,
\* starts in a state where pending is false.
C1_WriteOnlyWhenIdle ==
    [][(_data' # _data \/ (pc = "tx_write" /\ pc' # "tx_write")) => ~pending]_vars

\* a second frame, different from the first, has been written into the
\* envelope after the first was transferred
C1_Witness ==
    /\ pc = "tx_submit"
    /\ Len(submitted) >= 1
    /\ Len(rx) = Len(submitted) * FrameWords
    /\ words(_data, _num_strands = 1) # submitted[Len(submitted)]

\* C2: a frame is submitted only when no transfer is pending, at most one
\* transfer is in flight, and the engine takes the frames whole and in call
\* order: its words are a prefix of the submitted frames one after another.
C2_FramesWholeInOrder ==
    /\ [](/\ Len(queue) <= 1
          /\ \A k \in 1 .. Len(rx) :
                LET f == (k - 1) \div FrameWords + 1
                    i == (k - 1) % FrameWords
                IN  /\ f <= Len(submitted)
                    /\ rx[k] = <<f, i, submitted[f][i + 1]>>)
    /\ [][Len(submitted') > Len(submitted) => ~pending]_vars

\* two different frames have been taken by the engine, one after the other
C2_Witness ==
    /\ Len(submitted) >= 2
    /\ Len(rx) = 2 * FrameWords
    /\ submitted[1] # submitted[2]

\* C3: the engine is released only in a state where no transfer is pending.
C3_ReleaseOnlyWhenIdle ==
    [][_sm = "active" /\ _sm' = "released" => ~pending]_vars

\* C4: the constructor raises ValueError exactly when n is not a multiple of
\* num_strands, and then nothing has been built: the base class is not
\* initialised, no envelope is allocated, no state machine is acquired.
C4_LengthChecked ==
    /\ pc = "raised" =>
          /\ n % num_strands # 0
          /\ byteorder = <<>> /\ buf = <<>>
          /\ _data = <<>> /\ _pixels = <<0, 0>>
          /\ _sm = "none"
    /\ n % num_strands = 0 => pc # "raised"
    /\ n % num_strands # 0 => pc \in {"init", "raised"}

\* scenario D: 15 pixels on 8 strands
C4_Witness == pc = "raised" /\ n = 15 /\ num_strands = 8

\* C5: after its busy-wait _transmit does not wait again: its write and its
\* submission are enabled whatever the engine does, the engine takes no word
\* meanwhile, and the call returns with the transfer it has just submitted
\* pending and none of its words taken yet.
C5_ReturnsWhilePending ==
    /\ [](pc = "tx_write" => ENABLED TransmitWrite)
    /\ [](pc = "tx_submit" => ENABLED TransmitSubmit)
    /\ [][(pc \in {"tx_write", "tx_submit"}) => (rx' = rx)]_vars
    /\ [][pc = "tx_submit" /\ pc' \notin {"tx_submit", "error"} =>
            /\ pc' = ret
            /\ pending'
            /\ queue' = <<[id |-> Len(submitted'), pos |-> 0,
                            swap |-> (_num_strands = 1)]>>]_vars

\* show has returned after an earlier frame, its own transfer not yet begun
C5_Witness ==
    /\ pc = "ready"
    /\ Len(submitted) >= 2
    /\ pending
    /\ Head(queue).pos = 0
    /\ Len(rx) = (Len(submitted) - 1) * FrameWords

\* C6: with a fair engine every call of _transmit on a live driver leaves its
\* busy-wait, submits its frame and returns.
C6_EveryCallReturns ==
    (pc = "tx_wait" /\ _sm = "active")
        ~> (pc \in {"ready", "de_show", "de_release"})

\* C7: the payload view holds bpp*n bytes on one strand and bpp*n*8/num_strands
\* bytes, an exact quotient, on 2 to 8 strands.
C7_PayloadLength ==
    Built =>
        IF num_strands = 1 THEN PayloadLen = bpp * n
        ELSE PayloadLen * num_strands = bpp * n * 8

\* scenario A: 16 pixels on 8 strands, 3 bytes each, 48 payload bytes
C7_Witness ==
    /\ pc = "ready"
    /\ n = 16 /\ num_strands = 8 /\ bpp = 3
    /\ PayloadLen = 48

\* C8: the envelope is header, payload, 0 to 3 zero bytes of padding and
\* trailer, in this order and without overlap; its length is
\* 8 + data_len + (-data_len mod 4), a multiple of 4.
C8_EnvelopeLayout ==
    Built =>
        /\ PaddingLen \in 0 .. 3
        /\ (PayloadLen + PaddingLen) % 4 = 0
        /\ Len(_data) = 8 + PayloadLen + PaddingLen
        /\ Len(_data) % 4 = 0
        /\ _pixels[1] = 4
        /\ _pixels[2] + PaddingLen = Len(_data) - 4
        /\ \A i \in (_pixels[2] + 1) .. (Len(_data) - 4) : _data[i] = 0
        /\ SubSeq(_data, Len(_data) - 3, Len(_data))
              \in {PackBE(ResetDelay), PackLE(ResetDelay)}

\* an envelope with three bytes of padding
C8_Witness == pc = "ready" /\ PaddingLen = 3 /\ Len(_data) = 20

\* the value of four bytes read most significant first; -1 beyond 2^31 - 1
Decode(b) ==
    IF b[1] > 127 THEN -1
    ELSE b[1] * 16777216 + b[2] * 65536 + b[3] * 256 + b[4]
Reversed(b) == <<b[4], b[3], b[2], b[1]>>

\* C9: the header decodes to loop_count - 1, with loop_count = 8*data_len on
\* one strand and data_len otherwise, the trailer to 3840; big-endian on one
\* strand and little-endian otherwise.
C9_HeaderTrailer ==
    Built =>
        LET hdr == SubSeq(_data, 1, 4)
            trl == SubSeq(_data, Len(_data) - 3, Len(_data))
        IN  IF num_strands = 1
            THEN /\ Decode(hdr) = 8 * PayloadLen - 1
                 /\ Decode(trl) = 3840
            ELSE /\ Decode(Reversed(hdr)) = PayloadLen - 1
                 /\ Decode(Reversed(trl)) = 3840

\* scenario B: 4 pixels on one strand, 3 bytes each: big-endian 95
C9_Witness ==
    /\ pc = "ready"
    /\ n = 4 /\ num_strands = 1 /\ bpp = 3
    /\ SubSeq(_data, 1, 4) = <<0, 0, 0, 95>>
    /\ Len(_data) = 20

\* C10: an iteration of the bit loop that never waits for data takes 16
\* cycles: 4 with the pins high, 5 with the pins on the data bits, 7 with the
\* pins low.
C10_SixteenCycles ==
    (last.high > 0 /\ ~last.stall) =>
        /\ last.high = 4
        /\ last.var = 5
        /\ last.low = 7
        /\ last.high + last.var + last.low = 16

\* the payload region of the envelope
PayloadBytes == SubSeq(_data, _pixels[1] + 1, _pixels[2])

\* C11: on one strand, once _transmit has filled the payload and when it
\* returns, the payload region of the envelope is the buffer byte for byte,
\* for every buffer of bpp*n bytes.
C11_IdentityCopy ==
    /\ []((pc = "tx_submit" /\ _num_strands = 1 /\ Len(buf) = bpp * n)
            => PayloadBytes = buf)
    /\ [][(pc = "tx_submit" /\ pc' = ret /\ _num_strands = 1
              /\ Len(buf) = bpp * n) => (PayloadBytes' = buf')]_vars

\* three pixels on one strand, one byte of the second pixel set, transmitted
C11_Witness ==
    /\ pc = "ready"
    /\ _num_strands = 1 /\ n = 3 /\ bpp = 3
    /\ Len(submitted) = 1
    /\ buf = <<0, 0, 0, 0, 165, 0, 0, 0, 0>>
    /\ PayloadBytes = buf

\* the inverse of the transposition: byte j of strand i from bit i of the
\* eight bytes of position j
un_transpose(output, width) ==
    LET stride == Len(output) \div 8
        RECURSIVE collect(_, _, _)
        collect(i, j, k) ==
            IF k = 8 THEN 0
            ELSE Bit(output[8 * j + k + 1], i) * Pow2(7 - k) + collect(i, j, k + 1)
    IN  [b \in 1 .. (stride * width) |->
            collect((b - 1) \div stride, (b - 1) % stride, 0)]

InTransmit == pc \in {"tx_wait", "tx_write", "tx_submit"}

Pulled == Len(rx) - Len(fifo)

\* C14: the program keeps step with the frames.  It waits at the top with
\* whole frames pulled; the word it loads as loop count is the first of a
\* frame and holds loop_count - 1; inside the bit loop it has pulled the
\* header and at most the payload and padding words, never the trailer; it
\* leaves the loop with exactly these pulled; the word it loads as reset
\* delay is the last of the frame and holds 3840; and it counts the delay
\* down with the whole frame pulled.
C14_FrameAligned ==
    _sm = "active" =>
        LET W == FrameWords
            L == Len(variable_part(_num_strands))
            count == loop_count(n, _num_strands, bpp)
        IN  /\ pio_pc \in {top, top + 1} => Pulled % W = 0
            /\ pio_pc = top + 2 =>
                  /\ Pulled % W = 1
                  /\ RegValue(OSR) = count - 1
            /\ pio_pc \in bitloop .. (bitloop + 3 + L) =>
                  /\ Pulled % W \in 1 .. (W - 1)
                  /\ y \in 0 .. (count - 1)
                  /\ pio_pc # bitloop => Pulled % W # 1
            /\ pio_pc = wait_reset(_num_strands) - 2 =>
                  /\ Pulled % W = W - 1
                  /\ y = -1
            /\ pio_pc = wait_reset(_num_strands) - 1 =>
                  /\ Pulled > 0 /\ Pulled % W = 0
                  /\ RegValue(OSR) = ResetDelay
            /\ pio_pc >= wait_reset(_num_strands) =>
                  /\ Pulled > 0 /\ Pulled % W = 0
                  /\ y \in -1 .. ResetDelay

\* one pixel on one strand, a payload word with a byte of padding: the
\* program has taken two whole frames and waits at the top for a third
C14_Witness ==
    /\ _sm = "active"
    /\ PaddingLen = 1
    /\ Len(submitted) = 2
    /\ Pulled = 2 * FrameWords
    /\ pio_pc = top + 1
    /\ meter.stall

\* the cycles the instructions i .. j of a program take without a stall
RECURSIVE Cycles(_, _, _)
Cycles(prog, i, j) ==
    IF i > j THEN 0 ELSE 1 + prog[i].delay + Cycles(prog, i + 1, j)

\* the variable phase and the whole bit loop of the 8-strand program
VarCycles8 == Cycles(variable_part(8), 1, Len(variable_part(8)))
LoopCycles8 == Cycles(program(8), bitloop + 1, wait_reset(8) - 2)

\* C15: on 2 to 8 strands every iteration of the bit loop shifts 8 bits out
\* of the shift register, num_strands of them to the pins, and an iteration
\* that never waits for data keeps the pins on the data bits for as many
\* cycles, and lasts as many cycles, as an iteration of the 8-strand program;
\* so does an iteration on one strand.
C15_StepEquivalent ==
    last.high > 0 =>
        /\ _num_strands \in 2 .. 8 =>
              /\ last.bits = 8
              /\ last.pinbits = _num_strands
        /\ ~last.stall =>
              /\ last.var = VarCycles8
              /\ last.high + last.var + last.low = LoopCycles8

\* an iteration on three strands: 3 bits to the pins, 5 discarded
C15_Witness ==
    /\ _num_strands = 3
    /\ last.high > 0 /\ ~last.stall
    /\ last.bits = 8 /\ last.pinbits = 3
    /\ last.var = 5
    /\ x = 0
    /\ pio_pc = wait_reset(3)

\* C16: once the envelope is built, no call changes its length, its header,
\* its padding or its trailer, nor the payload view or the strand count of
\* the driver: only bytes of the payload region [4, 4 + data_len) are ever
\* written; the padding bytes are zero and the strand count is the
\* constructor's throughout.
C16_FrameEffect ==
    /\ [](Built =>
            /\ _num_strands = num_strands
            /\ \A i \in (_pixels[2] + 1) .. (Len(_data) - 4) : _data[i] = 0)
    /\ [][Built =>
            /\ Len(_data') = Len(_data)
            /\ \A i \in DOMAIN _data :
                  (i <= 4 \/ i > 4 + PayloadLen) => _data'[i] = _data[i]
            /\ _pixels' = _pixels
            /\ _num_strands' = _num_strands]_vars

\* an envelope with padding whose payload was written with pixel data and
\* then blanked by deinit
C16_Witness ==
    /\ _sm = "released"
    /\ PaddingLen > 0
    /\ Len(submitted) >= 2
    /\ submitted[1] # submitted[Len(submitted)]
    /\ SubSeq(_data, 1, 4) = struct_pack(pack(num_strands),
                                         loop_count(n, num_strands, bpp) - 1)

\* C17: on every driver the constructor builds, the flat pixel buffer of the
\* base class holds bpp*n bytes, the size the payload was allocated for, and
\* the write of _transmit neither fails nor leaves part of the payload
\* unwritten.
C17_BufferMatchesPayload ==
    pc = "ready" =>
        /\ Len(buf) = bpp * n
        /\ ~WriteFails(_num_strands, buf, _pixels)
        /\ Len(payload(_num_strands, buf)) = PayloadLen

\* frame f of the submitted frames has an all-zero payload
Blank(f) ==
    \A i \in 2 .. (Len(submitted[f]) - 1) : submitted[f][i] = <<0, 0, 0, 0>>

\* inside deinit, the calls it makes included
InDeinit ==
    \/ pc \in {"de_fill", "de_show", "de_release"}
    \/ pc \in {"tx_wait", "tx_write", "tx_submit", "error"}
          /\ ret \in {"de_show", "de_release"}

\* C18 as claimed: when deinit releases the engine it has submitted exactly
\* one frame, the last one submitted, whose payload is all zero.
C18_DeinitOneFrame ==
    [][(_sm = "active" /\ _sm' = "released") =>
          /\ Len(submitted) = mark + 1
          /\ Blank(Len(submitted))]_vars

\* C18: when deinit releases the engine it has submitted one frame if
\* auto_write is off and two if it is on (fill(0) shows, then show()); every
\* frame deinit submits has an all-zero payload, the last one submitted
\* before the release among them; a deinit that fails submits no more.
C18_DeinitFrames ==
    /\ [](InDeinit =>
            /\ Len(submitted) <= mark + (IF auto_write THEN 2 ELSE 1)
            /\ \A f \in (mark + 1) .. Len(submitted) : Blank(f))
    /\ [][(_sm = "active" /\ _sm' = "released") =>
            /\ Len(submitted) = mark + (IF auto_write THEN 2 ELSE 1)
            /\ Blank(Len(submitted))]_vars

\* deinit of an auto_write driver that had shown lit pixels: two blank
\* frames after the lit one
C18_Witness ==
    /\ _sm = "released"
    /\ auto_write
    /\ mark = 1
    /\ Len(submitted) = 3
    /\ ~Blank(1) /\ Blank(2) /\ Blank(3)

====
